---- MODULE Spec2Model ----
(***************************************************************************)
(* Model of frontend/script.js of the SNS Square QA Agent: the submit      *)
(* handler of the QA form (request building, the two awaits, the rendering *)
(* of the analysis result, catch and finally), and its helpers safeGet,    *)
(* getScoreClass, isMandatoryHashtag, renderChips and setLoading.          *)
(*                                                                         *)
(* JavaScript values are records tagged by their type.  A JavaScript       *)
(* string is a sequence of characters; a literal text that the script only *)
(* copies and never inspects is written as a sequence of one unit.         *)
(***************************************************************************)
EXTENDS Integers, Sequences, FiniteSets, TLC

\* ------------------------------------------------------------ bounds

\* Submit events in one run of the page.
MaxSubmits == 2
\* Nesting depth of the objects given to safeGet.
MaxDepth == 3
\* Length of the text typed in the hashtag field.
MaxLen == 4
\* Largest score given to getScoreClass.
MaxScore == 100

\* ------------------------------------------------- JavaScript values

Undef == [t |-> "undef"]
Null == [t |-> "null"]
Num(n) == [t |-> "num", n |-> n]
Bool(b) == [t |-> "bool", b |-> b]
Str(s) == [t |-> "str", s |-> s]
Arr(a) == [t |-> "arr", a |-> a]
Obj(f) == [t |-> "obj", f |-> f]
\* The literal {} .
EmptyObj == Obj(<<>>)
\* A literal text of the script, one unit.
Lit(text) == Str(<<text>>)

\* The two characters of the script outside ASCII, written in ASCII: the
\* en dash shown for a missing score, and the middle dot, with its spaces,
\* between a tag and its competition level.
Dash == "-"
MiddleDot == " . "

\* What an if, a ! or a || takes a value for.
Truthy(v) ==
  CASE v.t = "undef" -> FALSE
    [] v.t = "null" -> FALSE
    [] v.t = "num" -> v.n # 0
    [] v.t = "bool" -> v.b
    [] v.t = "str" -> Len(v.s) > 0
    [] OTHER -> TRUE

Nullish(v) == v.t \in {"undef", "null"}

\* a ?? b
Coalesce(a, b) == IF Nullish(a) THEN b ELSE a

\* a || b
OrElse(a, b) == IF Truthy(a) THEN a ELSE b

\* The name a sequence of characters spells.
RECURSIVE KeyOf(_)
KeyOf(s) == IF s = <<>> THEN "" ELSE Head(s) \o KeyOf(Tail(s))

\* v[key] and v.key for a v that is neither null nor undefined: a property of
\* an object, the length of an array or a string, undefined otherwise.
Prop(v, key) ==
  CASE v.t = "obj" -> IF key \in DOMAIN v.f THEN v.f[key] ELSE Undef
    [] v.t = "arr" -> IF key = "length" THEN Num(Len(v.a)) ELSE Undef
    [] v.t = "str" -> IF key = "length" THEN Num(Len(v.s)) ELSE Undef
    [] OTHER -> Undef

\* Reading a property of null or undefined throws a TypeError.
PropThrows(v) == Nullish(v)

\* ------------------------------------------------------------ strings

IsSpace(c) == c \in {" ", "\t", "\n"}

RECURSIVE TrimStart(_)
TrimStart(s) ==
  IF s # <<>> /\ IsSpace(Head(s)) THEN TrimStart(Tail(s)) ELSE s

RECURSIVE TrimEnd(_)
TrimEnd(s) ==
  IF s # <<>> /\ IsSpace(s[Len(s)]) THEN TrimEnd(SubSeq(s, 1, Len(s) - 1)) ELSE s

\* String.prototype.trim
Trim(s) == TrimEnd(TrimStart(s))

\* String.prototype.split with a one-character separator: the pieces between
\* the separators, the empty ones included; a text without separator is one piece.
RECURSIVE Split(_, _)
Split(s, sep) ==
  IF \E i \in 1..Len(s) : s[i] = sep
  THEN LET i == CHOOSE j \in 1..Len(s) : s[j] = sep /\ \A k \in 1..(j - 1) : s[k] # sep
       IN <<SubSeq(s, 1, i - 1)>> \o Split(SubSeq(s, i + 1, Len(s)), sep)
  ELSE <<s>>

UpperCase ==
  <<"A", "B", "C", "D", "E", "F", "G", "H", "I", "J", "K", "L", "M",
    "N", "O", "P", "Q", "R", "S", "T", "U", "V", "W", "X", "Y", "Z">>

LowerCase ==
  <<"a", "b", "c", "d", "e", "f", "g", "h", "i", "j", "k", "l", "m",
    "n", "o", "p", "q", "r", "s", "t", "u", "v", "w", "x", "y", "z">>

Digits == {"0", "1", "2", "3", "4", "5", "6", "7", "8", "9"}

LowerChar(c) ==
  IF \E i \in 1..26 : UpperCase[i] = c
  THEN LowerCase[CHOOSE i \in 1..26 : UpperCase[i] = c]
  ELSE c

\* String.prototype.toLowerCase
toLowerCase(s) == [i \in 1..Len(s) |-> LowerChar(s[i])]

IsLowerAlnum(c) == c \in Digits \/ \E i \in 1..26 : LowerCase[i] = c

\* s.replace(/[^a-z0-9]/g, '')
StripNonAlnum(s) == SelectSeq(s, IsLowerAlnum)

\* ------------------------------------------------------------ safeGet

\* The callback of the reduce: acc ? acc[key] : undefined
PathStep(acc, key) == IF Truthy(acc) THEN Prop(acc, KeyOf(key)) ELSE Undef

RECURSIVE Reduce(_, _)
Reduce(keys, acc) ==
  IF keys = <<>> THEN acc ELSE Reduce(Tail(keys), PathStep(acc, Head(keys)))

\* A variant of PathResult: || in place of ??, so that a falsy value at the
\* end of the path is replaced as well.
PathResultFalsy(v, fallback) == OrElse(v, fallback)

\* The ?? of the return statement.
PathResult(v, fallback) == Coalesce(v, fallback)

\* The body of the try: path.split is no function unless path is a string,
\* and on null or undefined reading it throws.
safeGetTry(obj, path, fallback) ==
  IF path.t # "str"
  THEN [threw |-> TRUE, value |-> Undef]
  ELSE [threw |-> FALSE,
        value |-> PathResult(Reduce(Split(path.s, "."), obj), fallback)]

\* safeGet(obj, path, fallback): the value returned, and whether the call
\* raised.  The catch returns the fallback.
safeGet(obj, path, fallback) ==
  LET try == safeGetTry(obj, path, fallback)
  IN IF try.threw
     THEN [raised |-> FALSE, value |-> fallback]
     ELSE [raised |-> FALSE, value |-> try.value]

\* ------------------------------------------------------ getScoreClass

\* The number a comparison takes a value for; NaN for what is no number.
NaN == [nan |-> TRUE, n |-> 0]

DigitValue(c) ==
  CASE c = "0" -> 0 [] c = "1" -> 1 [] c = "2" -> 2 [] c = "3" -> 3 [] c = "4" -> 4
    [] c = "5" -> 5 [] c = "6" -> 6 [] c = "7" -> 7 [] c = "8" -> 8 [] OTHER -> 9

RECURSIVE ParseDigits(_, _)
ParseDigits(s, acc) ==
  IF s = <<>> THEN acc ELSE ParseDigits(Tail(s), 10 * acc + DigitValue(Head(s)))

ToNumber(v) ==
  CASE v.t = "num" -> [nan |-> FALSE, n |-> v.n]
    [] v.t = "null" -> [nan |-> FALSE, n |-> 0]
    [] v.t = "bool" -> [nan |-> FALSE, n |-> IF v.b THEN 1 ELSE 0]
    [] v.t = "str" /\ (\A i \in 1..Len(Trim(v.s)) : Trim(v.s)[i] \in Digits) ->
         [nan |-> FALSE, n |-> ParseDigits(Trim(v.s), 0)]
    [] OTHER -> NaN

\* score >= bound: false for NaN
AtLeast(score, bound) == ~ToNumber(score).nan /\ ToNumber(score).n >= bound

\* A variant of getScoreClass: > in place of >=, so that a threshold falls
\* in the lower band.
getScoreClassStrict(score) ==
  IF ~AtLeast(score, 91) THEN
    (IF ~AtLeast(score, 76) THEN
       (IF ~AtLeast(score, 61) THEN "poor" ELSE "average")
     ELSE "good")
  ELSE "excellent"

getScoreClass(score) ==
  IF AtLeast(score, 90) THEN "excellent"
  ELSE IF AtLeast(score, 75) THEN "good"
  ELSE IF AtLeast(score, 60) THEN "average"
  ELSE "poor"

\* -------------------------------------------------- isMandatoryHashtag

MANDATORY_HASHTAGS ==
  << <<"#", "s", "n", "s", "s", "q", "u", "a", "r", "e">>,
     <<"#", "s", "n", "s", "i", "h", "u", "b">>,
     <<"#", "s", "n", "s", "d", "e", "s", "i", "g", "n",
       "t", "h", "i", "n", "k", "i", "n", "g">>,
     <<"#", "d", "e", "s", "i", "g", "n", "t", "h", "i", "n", "k", "e", "r", "s">> >>

\* tag.toLowerCase is no function unless tag is a string.
isMandatoryHashtagThrows(tag) == tag.t # "str"

isMandatoryHashtag(tag) ==
  LET normalized == StripNonAlnum(toLowerCase(tag.s))
  IN \E i \in 1..Len(MANDATORY_HASHTAGS) :
       StripNonAlnum(toLowerCase(MANDATORY_HASHTAGS[i])) = normalized

\* ------------------------------------------------ values shown as text

\* Array.prototype.join(","), with null and undefined elements shown empty.
RECURSIVE ToStr(_), JoinStr(_)
JoinStr(a) ==
  IF a = <<>> THEN <<>>
  ELSE (IF Nullish(Head(a)) THEN <<>> ELSE ToStr(Head(a)))
       \o (IF Len(a) > 1 THEN <<",">> \o JoinStr(Tail(a)) ELSE <<>>)

\* String(v): what a template literal and a string concatenation write for v.
ToStr(v) ==
  CASE v.t = "undef" -> <<"undefined">>
    [] v.t = "null" -> <<"null">>
    [] v.t = "num" -> <<ToString(v.n)>>
    [] v.t = "bool" -> IF v.b THEN <<"true">> ELSE <<"false">>
    [] v.t = "str" -> v.s
    [] v.t = "arr" -> JoinStr(v.a)
    [] OTHER -> <<"[object Object]">>

\* element.textContent = v: null and undefined clear the text.
TextContent(v) == IF Nullish(v) THEN <<>> ELSE ToStr(v)

\* JSON.stringify(v), the properties of an object in a fixed order.
RECURSIVE Stringify(_), StringifyItems(_), StringifyFields(_, _)
StringifyItems(a) ==
  IF a = <<>> THEN <<>>
  ELSE Stringify(Head(a))
       \o (IF Len(a) > 1 THEN <<",">> \o StringifyItems(Tail(a)) ELSE <<>>)

StringifyFields(f, keys) ==
  IF keys = {} THEN <<>>
  ELSE LET k == CHOOSE x \in keys : TRUE
       IN <<"\"", k, "\":">> \o Stringify(f[k])
          \o (IF keys = {k} THEN <<>> ELSE <<",">> \o StringifyFields(f, keys \ {k}))

Stringify(v) ==
  CASE v.t = "num" -> <<ToString(v.n)>>
    [] v.t = "bool" -> IF v.b THEN <<"true">> ELSE <<"false">>
    [] v.t = "str" -> <<"\"">> \o v.s \o <<"\"">>
    [] v.t = "arr" -> <<"[">> \o StringifyItems(v.a) \o <<"]">>
    [] v.t = "obj" -> <<"{">> \o StringifyFields(v.f, DOMAIN v.f) \o <<"}">>
    [] OTHER -> <<"null">>

\* ------------------------------------------------------------- errors

NoError == [thrown |-> FALSE, message |-> <<>>]
\* new Error(message), and the errors the engine throws.
Error(message) == [thrown |-> TRUE, message |-> message]
TypeError(text) == Error(<<"TypeError: ", text>>)
SyntaxError == Error(<<"SyntaxError: Unexpected token">>)
NetworkError == Error(<<"TypeError: Failed to fetch">>)

\* ---------------------------------------------------- the result panel

\* A child element written into a list or a chip container.
Element(className, text) == [className |-> className, text |-> text]

\* A score element: its text and its class.
Score(text, className) == [text |-> text, className |-> className]

\* The panel as the page loads it: the empty-state note shown, the result
\* hidden, nothing written yet.
EmptyView ==
  [resultEmptyHidden |-> FALSE,
   resultContentHidden |-> TRUE,
   overallScore |-> Score(<<>>, <<>>),
   scoreSection |-> <<>>,
   scoreQuality |-> Score(<<>>, <<>>),
   scoreSeo |-> Score(<<>>, <<>>),
   scoreEngagement |-> Score(<<>>, <<>>),
   scoreStructure |-> Score(<<>>, <<>>),
   issuesList |-> <<>>,
   grammarSummary |-> <<>>,
   toneSummary |-> <<>>,
   ctaStatus |-> <<>>,
   tagsFinal |-> <<>>,
   tagsTrending |-> <<>>,
   optimizedTitle |-> <<>>,
   optimizedContent |-> <<>>,
   ctaList |-> <<>>]

\* --------------------------------------------------------- renderChips

\* A variant of ClearContainer: the container keeps its children.
ClearContainerKept(container) == container

\* container.innerHTML = ""
ClearContainer(container) == <<>>

\* One turn of the forEach: the chip it appends, or the error it throws.
Chip(item, trending) ==
  LET isObject == item.t \in {"obj", "arr"}
      tagLabel == IF isObject
                  THEN OrElse(Prop(item, "tag"), Str(Stringify(item)))
                  ELSE item
      level == IF isObject THEN Prop(item, "competition_level") ELSE Undef
      hasLevel == isObject /\ Truthy(level)
  IN IF isMandatoryHashtagThrows(tagLabel)
     THEN [err |-> TypeError("tag.toLowerCase is not a function"), chip |-> <<>>]
     ELSE IF hasLevel /\ level.t # "str"
     THEN [err |-> TypeError("item.competition_level.toLowerCase is not a function"),
           chip |-> <<>>]
     ELSE LET isMandatory == isMandatoryHashtag(tagLabel)
              competitionClass == IF hasLevel
                                  THEN <<" competition-">> \o toLowerCase(level.s)
                                  ELSE <<>>
              label == IF hasLevel
                       THEN tagLabel.s \o <<MiddleDot>> \o level.s
                       ELSE tagLabel.s
              className == <<"chip">>
                           \o (IF isMandatory THEN <<" mandatory">>
                               ELSE IF trending THEN <<" trending">>
                               ELSE <<>>)
                           \o competitionClass
          IN [err |-> NoError, chip |-> Element(className, label)]

\* items.forEach: the chips appended before a turn throws stay in the container.
RECURSIVE AppendChips(_, _, _)
AppendChips(html, items, trending) ==
  IF items = <<>> THEN [html |-> html, err |-> NoError]
  ELSE LET c == Chip(Head(items), trending)
       IN IF c.err.thrown
          THEN [html |-> html, err |-> c.err]
          ELSE AppendChips(Append(html, c.chip), Tail(items), trending)

\* renderChips(container, items, {trending}): the container's children after
\* the call, and the error thrown, if any.
renderChips(container, items, trending) ==
  LET cleared == ClearContainer(container)
  IN IF ~Truthy(items) \/ ~Truthy(Prop(items, "length"))
     THEN [html |-> <<Element(<<"muted">>, <<"None">>)>>, err |-> NoError]
     ELSE IF items.t # "arr"
     THEN [html |-> cleared, err |-> TypeError("items.forEach is not a function")]
     ELSE AppendChips(cleared, items.a, trending)

\* ---------------------------------- the submit handler: rendering

\* The handler's progress through lines 164-247: the panel as written so far,
\* the timers it has set, and the error thrown, after which nothing more is
\* written.
Progress(view, timers, err) == [view |-> view, timers |-> timers, err |-> err]

\* const result = data.raw_json || data
ResultOf(data) == OrElse(Prop(data, "raw_json"), data)

\* const overallScore = result.overall_score ?? 0
OverallScoreOf(result) == Coalesce(Prop(result, "overall_score"), Num(0))

\* Show result container
ShowResult(st) ==
  IF st.err.thrown THEN st
  ELSE [st EXCEPT !.view.resultEmptyHidden = TRUE,
                  !.view.resultContentHidden = FALSE]

\* Scores with dynamic coloring, and the score section's background
RenderOverall(st, result) ==
  IF st.err.thrown THEN st
  ELSE LET overallScore == OverallScoreOf(result)
       IN [st EXCEPT
             !.view.overallScore =
                Score(TextContent(overallScore),
                      <<"score-big ", getScoreClass(overallScore)>>),
             !.view.scoreSection =
                <<"score-section ", getScoreClass(overallScore)>>]

\* One category score: the text, breakdown.x ?? "-", and the class,
\* 'score-value ' + getScoreClass(breakdown.x ?? 0)
BreakdownScore(breakdown, key) ==
  Score(TextContent(Coalesce(Prop(breakdown, key), Lit(Dash))),
        <<"score-value ", getScoreClass(Coalesce(Prop(breakdown, key), Num(0)))>>)

RenderBreakdown(st, result) ==
  IF st.err.thrown THEN st
  ELSE LET breakdown == OrElse(Prop(result, "scores_breakdown"), EmptyObj)
       IN [st EXCEPT
             !.view.scoreQuality = BreakdownScore(breakdown, "quality_score"),
             !.view.scoreSeo = BreakdownScore(breakdown, "seo_score"),
             !.view.scoreEngagement = BreakdownScore(breakdown, "engagement_score"),
             !.view.scoreStructure = BreakdownScore(breakdown, "structure_score")]

\* Animate score bar: setTimeout queues the callback with overallScore
ScheduleBar(st, result) ==
  IF st.err.thrown THEN st
  ELSE [st EXCEPT !.timers = Append(@, OverallScoreOf(result))]

\* The text of one issue.
IssueText(issue) ==
  IF issue.t \in {"obj", "arr"}
  THEN TextContent(OrElse(Prop(issue, "issue"),
                          OrElse(Prop(issue, "message"), Str(Stringify(issue)))))
  ELSE TextContent(issue)

\* Issues
RenderIssues(st, result) ==
  IF st.err.thrown THEN st
  ELSE LET issues == OrElse(Prop(result, "issues_found"), Arr(<<>>))
       IN IF ~Truthy(Prop(issues, "length"))
          THEN [st EXCEPT !.view.issuesList =
                  <<Element(<<"muted">>, <<"No major issues found.">>)>>]
          ELSE IF issues.t # "arr"
          THEN [st EXCEPT !.view.issuesList = <<>>,
                          !.err = TypeError("issues.forEach is not a function")]
          ELSE [st EXCEPT !.view.issuesList =
                  [i \in 1..Len(issues.a) |-> Element(<<>>, IssueText(issues.a[i]))]]

\* Content checks
RenderChecks(st, result) ==
  IF st.err.thrown THEN st
  ELSE LET checks == OrElse(Prop(result, "content_checks"), EmptyObj)
       IN [st EXCEPT
             !.view.grammarSummary =
                <<"Grammar: ">> \o ToStr(OrElse(Prop(checks, "grammar_summary"), Lit("N/A"))),
             !.view.toneSummary =
                <<"Tone: ">> \o ToStr(OrElse(Prop(checks, "tone_summary"), Lit("N/A"))),
             !.view.ctaStatus =
                <<"CTA: ">> \o ToStr(OrElse(Prop(checks, "cta_status"), Lit("N/A")))]

\* The path of the final hashtag pack.
FinalPackPath ==
  Str(<<"final_output", ".", "final_hashtag_pack">>)

\* Hashtags: the final pack, then the trending tags
RenderFinalTags(st, result) ==
  IF st.err.thrown THEN st
  ELSE LET finalPack == safeGet(result, FinalPackPath, Arr(<<>>)).value
           chips == renderChips(st.view.tagsFinal, finalPack, FALSE)
       IN [st EXCEPT !.view.tagsFinal = chips.html, !.err = chips.err]

RenderTrendingTags(st, result) ==
  IF st.err.thrown THEN st
  ELSE LET tags == OrElse(Prop(result, "hashtags"), EmptyObj)
           chips == renderChips(st.view.tagsTrending,
                                OrElse(Prop(tags, "trending"), Arr(<<>>)), TRUE)
       IN [st EXCEPT !.view.tagsTrending = chips.html, !.err = chips.err]

\* Optimized content
RenderOptimized(st, result) ==
  IF st.err.thrown THEN st
  ELSE LET finalOut == OrElse(Prop(result, "final_output"), EmptyObj)
       IN [st EXCEPT
             !.view.optimizedTitle =
                TextContent(OrElse(Prop(finalOut, "optimized_title"), Str(<<>>))),
             !.view.optimizedContent =
                TextContent(OrElse(Prop(finalOut, "optimized_content"), Str(<<>>)))]

\* CTAs
RenderCtas(st, result) ==
  IF st.err.thrown THEN st
  ELSE LET improvements == OrElse(Prop(result, "improvements"), EmptyObj)
           ctas == OrElse(Prop(improvements, "cta_variants"), Arr(<<>>))
       IN IF ~Truthy(Prop(ctas, "length"))
          THEN [st EXCEPT !.view.ctaList =
                  <<Element(<<"muted">>, <<"No CTA variants returned.">>)>>]
          ELSE IF ctas.t # "arr"
          THEN [st EXCEPT !.view.ctaList = <<>>,
                          !.err = TypeError("ctas.forEach is not a function")]
          ELSE [st EXCEPT !.view.ctaList =
                  [i \in 1..Len(ctas.a) |-> Element(<<>>, TextContent(ctas.a[i]))]]

\* Lines 165-247 on the decoded body: data.raw_json throws on null; then the
\* panel is written section by section, up to the first error thrown.
Render(view, timers, data) ==
  IF PropThrows(data)
  THEN Progress(view, timers, TypeError("Cannot read properties of null"))
  ELSE LET result == ResultOf(data)
       IN RenderCtas(
            RenderOptimized(
              RenderTrendingTags(
                RenderFinalTags(
                  RenderChecks(
                    RenderIssues(
                      ScheduleBar(
                        RenderBreakdown(
                          RenderOverall(
                            ShowResult(Progress(view, timers, NoError)),
                            result),
                          result),
                        result),
                      result),
                    result),
                  result),
                result),
              result),
            result)

\* ------------------------------------------ the submit handler: request

\* A variant of SplitHashtags: without the filter, so that empty pieces stay.
SplitHashtagsUnfiltered(hashtagsRaw) ==
  IF Len(hashtagsRaw) > 0
  THEN LET pieces == Split(hashtagsRaw, ",")
       IN [i \in 1..Len(pieces) |-> Trim(pieces[i])]
  ELSE <<>>

\* hashtagsRaw.split(",").map((s) => s.trim()).filter(Boolean), or [] for
\* an empty field; hashtagsRaw is the field's value, trimmed.
SplitHashtags(hashtagsRaw) ==
  IF Len(hashtagsRaw) > 0
  THEN LET pieces == Split(hashtagsRaw, ",")
           trimmed == [i \in 1..Len(pieces) |-> Trim(pieces[i])]
       IN SelectSeq(trimmed, LAMBDA piece : Len(piece) > 0)
  ELSE <<>>

\* The hashtags of the payload for the text of the hashtag field.
Hashtags(field) == SplitHashtags(Trim(field))

\* value || null
OrNull(text) == IF Len(text) > 0 THEN Str(text) ELSE Null

\* The payload for the values of the form's fields.
Payload(form) ==
  [platform |-> Str(form.platform),
   title |-> OrNull(Trim(form.title)),
   content |-> Str(Trim(form.content)),
   hashtags |-> Arr([i \in 1..Len(Hashtags(form.hashtags)) |->
                       Str(Hashtags(form.hashtags)[i])]),
   geo |-> OrNull(Trim(form.geo)),
   niche |-> OrNull(Trim(form.niche)),
   target_audience |-> OrNull(Trim(form.target_audience))]

\* A variant of ContentMissing: the content is checked untrimmed.
ContentMissingUntrimmed(form) == Len(form.content) = 0

\* if (!content): the check of the trimmed content.
ContentMissing(form) == Len(Trim(form.content)) = 0

\* setLoading(isLoading): the button's text and whether its spinner is hidden.
setLoading(isLoading) ==
  IF isLoading
  THEN [text |-> "Analyzing...", spinnerHidden |-> FALSE]
  ELSE [text |-> "Run QA", spinnerHidden |-> TRUE]

\* The error box the handler starts with, the validation message, and the
\* catch block: err.message || "Something went wrong."
ErrorBoxCleared == [hidden |-> TRUE, text |-> <<>>]
ErrorBoxValidation ==
  [hidden |-> FALSE, text |-> <<"Please paste some content to analyze.">>]
Catch(err) ==
  [hidden |-> FALSE,
   text |-> IF Len(err.message) > 0 THEN err.message ELSE <<"Something went wrong.">>]

\* The error box after the try statement: the catch block runs on an error.
AfterCatch(box, err) == IF err.thrown THEN Catch(err) ELSE box

\* A variant of Finally: the button is reset at the end of the try block
\* instead, which an error skips.
FinallySkippedByError(btn, err) == IF err.thrown THEN btn ELSE setLoading(FALSE)

\* The button after the try statement: the finally block runs on every path.
Finally(btn, err) == setLoading(FALSE)

\* throw new Error(errData.detail || "Server error"), errData being {} when
\* the error body does not decode; reading detail of null throws instead.
ServerError(body) ==
  LET errData == IF body.decodes THEN body.data ELSE EmptyObj
  IN IF PropThrows(errData)
     THEN TypeError("Cannot read properties of null")
     ELSE Error(ToStr(OrElse(Prop(errData, "detail"), Lit("Server error"))))

\* The timer's callback: scoreBarFill.style.width = `${Math.min(overallScore, 100)}%`;
\* a width that is no percentage (NaN, or below 0) leaves the style as it was.
BarWidth(width, overallScore) ==
  LET n == ToNumber(overallScore)
  IN IF n.nan \/ n.n < 0 THEN width
     ELSE <<ToString(IF n.n < 100 THEN n.n ELSE 100), "%">>

\* ---------------------------------------------------------------- inputs

\* What the user types: the content varies; the hashtag field names a tag
\* twice, the geography is left empty and the niche blank.
Form(content) ==
  [platform |-> <<"instagram">>, title |-> <<" ", "T">>, content |-> content,
   hashtags |-> <<"#", "a", ",", " ", "#", "a", ",">>, geo |-> <<>>,
   niche |-> <<" ">>, target_audience |-> <<"students">>]

Contents == {<<>>, <<" ", "\n">>, <<" ", "G", "o", " ">>}
Forms == {Form(c) : c \in Contents}

SnsSquare == <<"#", "S", "N", "S", " ", "S", "q", "u", "a", "r", "e">>
Random == <<"#", "r", "a", "n", "d", "o", "m">>

\* Bodies of 2xx responses, as decoded.
BodyEmpty == EmptyObj
BodyExample ==
  Obj([overall_score |-> Num(82),
       scores_breakdown |-> Obj([quality_score |-> Num(90)])])
BodyFull ==
  Obj([overall_score |-> Num(95),
       scores_breakdown |->
         Obj([quality_score |-> Num(0), seo_score |-> Num(60),
              engagement_score |-> Num(75), structure_score |-> Num(59)]),
       issues_found |->
         Arr(<<Lit("Too long"),
               Obj([issue |-> Lit("x"), message |-> Lit("y")]),
               Obj([message |-> Lit("y")]),
               Obj([foo |-> Lit("z")])>>),
       content_checks |->
         Obj([grammar_summary |-> Lit("Clean"), tone_summary |-> Lit("Warm"),
              cta_status |-> Lit("Missing")]),
       hashtags |->
         Obj([trending |->
                Arr(<<Str(Random),
                      Obj([tag |-> Str(SnsSquare),
                           competition_level |-> Str(<<"L", "o", "w">>)])>>)]),
       final_output |->
         Obj([optimized_title |-> Lit("Better title"),
              optimized_content |-> Lit("Better content"),
              final_hashtag_pack |->
                Arr(<<Str(SnsSquare), Obj([tag |-> Str(Random)]),
                      Obj([competition_level |-> Str(<<"H", "i", "g", "h">>)])>>)]),
       improvements |->
         Obj([cta_variants |-> Arr(<<Lit("Follow us"), Lit("Share this")>>)])])
BodyWrapped ==
  Obj([overall_score |-> Num(10),
       raw_json |->
         Obj([overall_score |-> Num(60),
              scores_breakdown |-> Obj([seo_score |-> Num(100)]),
              issues_found |-> Arr(<<Lit("Weak hook")>>),
              improvements |-> Obj([cta_variants |-> Arr(<<Lit("Subscribe")>>)])])])
BodyIssuesText ==
  Obj([overall_score |-> Num(40), issues_found |-> Lit("none")])
BodyBadTag ==
  Obj([hashtags |-> Obj([trending |-> Arr(<<Str(Random), Null>>)])])
BodyCtasText ==
  Obj([improvements |-> Obj([cta_variants |-> Lit("Follow us")])])
BodyNull == Null

WellFormedBodies == {BodyEmpty, BodyExample, BodyFull, BodyWrapped}
MisshapenBodies == {BodyIssuesText, BodyBadTag, BodyCtasText, BodyNull}

\* What res.json() settles with: a decoded body, or a rejection.
Decoded(data) == [decodes |-> TRUE, data |-> data]
Undecodable == [decodes |-> FALSE, data |-> Undef]
OkBodies == {Decoded(b) : b \in WellFormedBodies \cup MisshapenBodies} \cup {Undecodable}
ErrorBodies ==
  {Decoded(Obj([detail |-> Lit("Quota exceeded")])), Decoded(EmptyObj),
   Decoded(Null), Undecodable}

\* ----------------------------------------------------------------- state

VARIABLES
  pc,          \* each run of the submit handler: where it stands
  request,     \* each run's POST /analyze while the fetch is pending
  button,      \* btnText's text and whether btnSpinner is hidden
  errorBox,    \* the error box: hidden or not, and its text
  view,        \* the result panel
  timers,      \* the overall scores of the score bar's pending timers
  barWidth,    \* the score bar's width
  unhandled,   \* whether an error has left a handler uncaught
  lastEvent,   \* the event handled last, with its input
  lastFailed,  \* whether the handler's run ended in an error with that event
  arg,         \* the input of the function under test
  ret          \* its result

vars ==
  <<pc, request, button, errorBox, view, timers, barWidth, unhandled, lastEvent,
    lastFailed, arg, ret>>

Runs == 1..MaxSubmits
InFlight == {"fetch", "json", "errjson"}
\* The runs whose request has not settled yet.
Outstanding == {i \in Runs : pc[i] \in InFlight}
NoRequest == Null
\* An event: its kind, the run of the handler it belongs to, and its input.
Event(kind, run, input) == [kind |-> kind, run |-> run, input |-> input]
\* The result of the function under test.
NotRun == [done |-> FALSE]
Result(value) == [done |-> TRUE, value |-> value]

\* The page as loaded.
Page ==
  /\ pc = [i \in Runs |-> "idle"]
  /\ request = [i \in Runs |-> NoRequest]
  /\ button = setLoading(FALSE)
  /\ errorBox = ErrorBoxCleared
  /\ view = EmptyView
  /\ timers = <<>>
  /\ barWidth = <<>>
  /\ unhandled = FALSE
  /\ lastEvent = Event("load", 0, Undef)
  /\ lastFailed = FALSE

Init ==
  /\ Page
  /\ arg = Undef
  /\ ret = NotRun

\* The submit event: lines 111-148, up to the await of the fetch.  Without
\* content the handler returns after showing the validation message.
Submit(i, form) ==
  /\ pc[i] = "idle"
  /\ \A j \in Runs : j < i => pc[j] # "idle"
  /\ IF ContentMissing(form)
     THEN /\ errorBox' = ErrorBoxValidation
          /\ pc' = [pc EXCEPT ![i] = "done"]
          /\ UNCHANGED <<request, button>>
     ELSE /\ errorBox' = ErrorBoxCleared
          /\ request' = [request EXCEPT ![i] = Obj(Payload(form))]
          /\ button' = setLoading(TRUE)
          /\ pc' = [pc EXCEPT ![i] = "fetch"]
  /\ lastEvent' = Event("submit", i, form)
  /\ lastFailed' = ContentMissing(form)
  /\ UNCHANGED <<view, timers, barWidth, unhandled, arg, ret>>

\* The fetch rejects (the network fails): catch, then finally.
FetchFails(i) ==
  /\ pc[i] = "fetch"
  /\ errorBox' = AfterCatch(errorBox, NetworkError)
  /\ button' = Finally(button, NetworkError)
  /\ pc' = [pc EXCEPT ![i] = "done"]
  /\ request' = [request EXCEPT ![i] = NoRequest]
  /\ lastEvent' = Event("fetchFails", i, Undef)
  /\ lastFailed' = TRUE
  /\ UNCHANGED <<view, timers, barWidth, unhandled, arg, ret>>

\* The fetch resolves with a response; the handler awaits res.json(), on
\* line 164 for a 2xx status and on line 160 otherwise.
FetchResponds(i, ok) ==
  /\ pc[i] = "fetch"
  /\ pc' = [pc EXCEPT ![i] = IF ok THEN "json" ELSE "errjson"]
  /\ request' = [request EXCEPT ![i] = NoRequest]
  /\ lastEvent' = Event("fetchResponds", i, Bool(ok))
  /\ lastFailed' = FALSE
  /\ UNCHANGED <<button, errorBox, view, timers, barWidth, unhandled, arg, ret>>

\* res.json() of a 2xx response settles: lines 164-254.
JsonSettles(i, body) ==
  /\ pc[i] = "json"
  /\ pc' = [pc EXCEPT ![i] = "done"]
  /\ lastEvent' = Event("json", i, body)
  /\ \E st \in {IF body.decodes
                 THEN Render(view, timers, body.data)
                 ELSE Progress(view, timers, SyntaxError)} :
       /\ view' = st.view
       /\ timers' = st.timers
       /\ errorBox' = AfterCatch(errorBox, st.err)
       /\ button' = Finally(button, st.err)
       /\ lastFailed' = st.err.thrown
  /\ UNCHANGED <<request, barWidth, unhandled, arg, ret>>

\* res.json() of a response that is not 2xx settles: lines 160-161, 248-254.
ErrorJsonSettles(i, body) ==
  /\ pc[i] = "errjson"
  /\ pc' = [pc EXCEPT ![i] = "done"]
  /\ lastEvent' = Event("errjson", i, body)
  /\ lastFailed' = TRUE
  /\ errorBox' = AfterCatch(errorBox, ServerError(body))
  /\ button' = Finally(button, ServerError(body))
  /\ UNCHANGED <<request, view, timers, barWidth, unhandled, arg, ret>>

\* The oldest score bar timer fires: lines 197-199.
BarTimer ==
  /\ timers # <<>>
  /\ barWidth' = BarWidth(barWidth, Head(timers))
  /\ timers' = Tail(timers)
  /\ lastEvent' = Event("timer", 0, Undef)
  /\ lastFailed' = FALSE
  /\ UNCHANGED <<pc, request, button, errorBox, view, unhandled, arg, ret>>

Next ==
  \/ \E i \in Runs, form \in Forms : Submit(i, form)
  \/ \E i \in Runs : FetchFails(i)
  \/ \E i \in Runs, ok \in BOOLEAN : FetchResponds(i, ok)
  \/ \E i \in Runs, body \in OkBodies : JsonSettles(i, body)
  \/ \E i \in Runs, body \in ErrorBodies : ErrorJsonSettles(i, body)
  \/ BarTimer

Spec == Init /\ [][Next]_vars

\* A step of the network: a fetch or a res.json() settles.
Settle ==
  \/ \E i \in Runs : FetchFails(i)
  \/ \E i \in Runs, ok \in BOOLEAN : FetchResponds(i, ok)
  \/ \E i \in Runs, body \in OkBodies : JsonSettles(i, body)
  \/ \E i \in Runs, body \in ErrorBodies : ErrorJsonSettles(i, body)

\* The network settles the calls it has accepted.
FairSpec == Spec /\ WF_vars(Settle)

\* ------------------------------------------- the functions on their own

PageUnchanged ==
  UNCHANGED <<pc, request, button, errorBox, view, timers, barWidth, unhandled,
              lastEvent, lastFailed>>

\* getScoreClass on every score from 0 to MaxScore.
Scores == {Num(s) : s \in 0..MaxScore}
ClassifyInit == Page /\ arg \in Scores /\ ret = NotRun
Classify ==
  /\ ~ret.done
  /\ ret' = Result(getScoreClass(arg))
  /\ UNCHANGED arg
  /\ PageUnchanged
ClassifySpec == ClassifyInit /\ [][Classify]_vars

\* safeGet on objects nested to MaxDepth, along dotted paths of up to
\* MaxDepth segments.
Keys == {"a", "b", "c"}
Leaves == {Null, Num(0), Num(7), Str(<<>>), Bool(FALSE), EmptyObj}
RECURSIVE Nested(_)
Nested(depth) ==
  IF depth = 0 THEN Leaves
  ELSE Leaves \cup {Obj([x \in {k} |-> v]) : k \in Keys, v \in Nested(depth - 1)}
RECURSIVE KeySeqs(_)
KeySeqs(len) ==
  IF len = 0 THEN {<<>>}
  ELSE {Append(ks, k) : ks \in KeySeqs(len - 1), k \in Keys}
\* The segments of the paths tried: one to MaxDepth keys, and the paths
\* "", "a." and ".a", which have an empty segment.
Segments ==
  UNION {KeySeqs(len) : len \in 1..MaxDepth} \cup {<<"">>, <<"a", "">>, <<"", "a">>}
\* The dotted path of a sequence of segments.
RECURSIVE Dotted(_)
Dotted(segments) ==
  IF Len(segments) = 1
  THEN (IF segments[1] = "" THEN <<>> ELSE <<segments[1]>>)
  ELSE (IF segments[1] = "" THEN <<>> ELSE <<segments[1]>>)
       \o <<".">> \o Dotted(Tail(segments))
Fallbacks == {Null, Lit("fallback")}
PathInputs ==
  {[obj |-> o, segments |-> ks, path |-> Str(Dotted(ks)), fallback |-> fb] :
     o \in Nested(MaxDepth), ks \in Segments, fb \in Fallbacks}
  \cup {[obj |-> o, segments |-> <<>>, path |-> Null, fallback |-> fb] :
          o \in Nested(1), fb \in Fallbacks}
PathInit == Page /\ arg \in PathInputs /\ ret = NotRun
Resolve ==
  /\ ~ret.done
  /\ ret' = Result(safeGet(arg.obj, arg.path, arg.fallback))
  /\ UNCHANGED arg
  /\ PageUnchanged
PathSpec == PathInit /\ [][Resolve]_vars

\* The hashtags of the payload for every text of up to MaxLen characters
\* typed in the hashtag field, and for the text "#SNS Square, #random".
RECURSIVE Texts(_)
Texts(len) ==
  IF len = 0 THEN {<<>>}
  ELSE Texts(len - 1)
       \cup {Append(t, c) : t \in {u \in Texts(len - 1) : Len(u) = len - 1},
                            c \in {",", " ", "a", "b"}}
ExampleField == SnsSquare \o <<",", " ">> \o Random
HashtagInit == Page /\ arg \in Texts(MaxLen) \cup {ExampleField} /\ ret = NotRun
SplitField ==
  /\ ~ret.done
  /\ ret' = Result(Hashtags(arg))
  /\ UNCHANGED arg
  /\ PageUnchanged
HashtagSpec == HashtagInit /\ [][SplitField]_vars

\* ----------------------------------------------------------------- claims

\* C1: at most one analyze request is outstanding at any time; a submit event
\* that arrives while an earlier request has not settled starts no second call.
C1_SingleOutstanding == Cardinality(Outstanding) <= 1

\* C2: a submission that ends in failure (the network fails, a status that is
\* not 2xx, a body that does not decode, an error while the response is
\* processed) leaves every part of the result panel as it was before.
C2_FailureLeavesView ==
  [][(lastEvent'.kind \in {"fetchFails", "json", "errjson"} /\ lastFailed')
       => view' = view]_vars

\* C3: the step that ends a run of the handler in flight, whatever the
\* outcome, leaves the button idle and no error uncaught; and whenever a
\* request is in flight, the network settling its calls, the page comes to
\* have none in flight and the button idle.
C3_ReturnsToIdle ==
  /\ [][\A i \in Runs :
          (pc[i] \in InFlight /\ pc'[i] \notin InFlight)
            => /\ pc'[i] = "done"
               /\ button'.text = "Run QA"
               /\ button'.spinnerHidden
               /\ ~unhandled']_vars
  /\ (Outstanding # {})
       ~> (Outstanding = {} /\ button.text = "Run QA" /\ button.spinnerHidden)

\* A run whose rendering threw has ended, and the button is idle.
C3_Witness ==
  /\ lastEvent.kind = "json"
  /\ lastFailed
  /\ lastEvent.input.decodes
  /\ pc[lastEvent.run] = "done"
  /\ button.text = "Run QA"
  /\ button.spinnerHidden

\* A text of white space only, or empty.
Blank(text) == \A k \in 1..Len(text) : IsSpace(text[k])

\* C4: a submit event whose content is blank shows the validation message,
\* starts no request, leaves the button and the result panel as they were;
\* and a request is started only by a submit event whose content is not blank,
\* with content that is not empty.
C4_BlankContentStopsSubmit ==
  [][/\ (lastEvent'.kind = "submit" /\ Blank(lastEvent'.input.content))
          => /\ errorBox' = ErrorBoxValidation
             /\ Outstanding' = Outstanding
             /\ request' = request
             /\ button' = button
             /\ view' = view
             /\ timers' = timers
     /\ \A i \in Runs :
          (request'[i] # NoRequest /\ request[i] = NoRequest)
            => /\ lastEvent'.kind = "submit"
               /\ ~Blank(lastEvent'.input.content)
               /\ Len(request'[i].f.content.s) > 0]_vars

\* A submit event with content of white space only has been refused while
\* another request was in flight.
C4_Witness ==
  /\ lastEvent.kind = "submit"
  /\ Len(lastEvent.input.content) > 0
  /\ Blank(lastEvent.input.content)
  /\ errorBox = ErrorBoxValidation
  /\ pc[lastEvent.run] = "done"
  /\ Outstanding # {}

\* C5: after a response is rendered without error, the result panel is the
\* rendering of that response alone, whatever was displayed before.
C5_ViewIsLastResponse ==
  [][(lastEvent'.kind = "json" /\ ~lastFailed')
       => view' = Render(EmptyView, <<>>, lastEvent'.input.data).view]_vars

\* The empty response has been rendered over the full one (whose score the
\* bar shows): the lists hold their placeholders only.
C5_Witness ==
  /\ lastEvent.kind = "json"
  /\ ~lastFailed
  /\ lastEvent.run = 2
  /\ lastEvent.input.data = BodyEmpty
  /\ pc[1] = "done"
  /\ barWidth = <<"95", "%">>
  /\ view.tagsFinal = <<Element(<<"muted">>, <<"None">>)>>
  /\ Len(view.issuesList) = 1

Bands == {"poor", "average", "good", "excellent"}
HasBand(score) == \E b \in Bands : score.className = <<"score-value ", b>>
CategoryScores ==
  {<<"quality_score", "scoreQuality">>, <<"seo_score", "scoreSeo">>,
   <<"engagement_score", "scoreEngagement">>, <<"structure_score", "scoreStructure">>}

\* C6: a category score that is absent from the rendered response shows the
\* placeholder and carries no band.
C6_AbsentScoreHasNoBand ==
  (lastEvent.kind = "json" /\ ~lastFailed)
    => LET result == ResultOf(lastEvent.input.data)
           breakdown == OrElse(Prop(result, "scores_breakdown"), EmptyObj)
       IN \A c \in CategoryScores :
            Nullish(Prop(breakdown, c[1]))
              => /\ view[c[2]].text = <<Dash>>
                 /\ ~HasBand(view[c[2]])

\* C7: every body that decodes is rendered without an error; the empty object
\* gives overall score 0, the 'no issues' marker, the placeholder in both
\* hashtag groups and the 'no CTA variants' placeholder.
C7_NormalizerTotal ==
  (lastEvent.kind = "json" /\ lastEvent.input.decodes)
    => /\ ~lastFailed
       /\ lastEvent.input.data = EmptyObj
            => /\ view.overallScore.text = <<"0">>
               /\ view.issuesList = <<Element(<<"muted">>, <<"No major issues found.">>)>>
               /\ view.tagsFinal = <<Element(<<"muted">>, <<"None">>)>>
               /\ view.tagsTrending = <<Element(<<"muted">>, <<"None">>)>>
               /\ view.ctaList = <<Element(<<"muted">>, <<"No CTA variants returned.">>)>>

\* The pieces of a text between its commas, by position: piece j lies between
\* the (j-1)th and the jth comma.
CommaCuts(text) == {0, Len(text) + 1} \cup {i \in 1..Len(text) : text[i] = ","}
Cut(text, j) ==
  CHOOSE c \in CommaCuts(text) : Cardinality({d \in CommaCuts(text) : d < c}) = j - 1
PieceAt(text, j) == SubSeq(text, Cut(text, j) + 1, Cut(text, j + 1) - 1)
\* A piece without the white space around it, by position.
Inner(piece) ==
  LET solid == {i \in 1..Len(piece) : ~IsSpace(piece[i])}
  IN IF solid = {} THEN <<>>
     ELSE SubSeq(piece,
                 CHOOSE i \in solid : \A k \in solid : i <= k,
                 CHOOSE i \in solid : \A k \in solid : k <= i)
\* The trimmed pieces of a text that are not empty, in the order of the text.
TrimmedPieces(text) ==
  SelectSeq([j \in 1..(Cardinality(CommaCuts(text)) - 1) |-> Inner(PieceAt(text, j))],
            LAMBDA piece : piece # <<>>)
NoDuplicates(seq) == \A i, j \in 1..Len(seq) : seq[i] = seq[j] => i = j

\* C8 as stated: the hashtags of the request are the trimmed pieces of the
\* field in their order, none empty, and none more than once.
C8_HashtagsDeduplicated ==
  ret.done => (ret.value = TrimmedPieces(arg) /\ NoDuplicates(ret.value))

\* C8 as amended: the hashtags of the request are the trimmed pieces of the
\* field in their order, none empty, one for every piece that is not blank
\* (a value typed twice is sent twice); the example text gives exactly
\* "#SNS Square", "#random".
C8_HashtagsAreTrimmedPieces ==
  ret.done
    => /\ ret.value = TrimmedPieces(arg)
       /\ \A i \in 1..Len(ret.value) : ret.value[i] # <<>>
       /\ Len(ret.value) =
            Cardinality({j \in 1..(Cardinality(CommaCuts(arg)) - 1) :
                           ~Blank(PieceAt(arg, j))})
       /\ arg = ExampleField => ret.value = <<SnsSquare, Random>>

\* The example text has been split into its two hashtags.
C8_Witness == ret.done /\ arg = ExampleField /\ Len(ret.value) = 2

\* C9: a score below 60 is poor, from 60 below 75 average, from 75 below 90
\* good, from 90 to 100 excellent.
C9_ScoreBands ==
  ret.done
    => LET s == arg.n
       IN /\ s < 60 => ret.value = "poor"
          /\ (60 <= s /\ s < 75) => ret.value = "average"
          /\ (75 <= s /\ s < 90) => ret.value = "good"
          /\ (90 <= s /\ s <= 100) => ret.value = "excellent"

\* The threshold 60 has been classified average.
C9_Witness == ret.done /\ arg = Num(60) /\ ret.value = "average"

\* The value at the end of a path, by descent through the objects that have
\* the segment as a property; undefined where the descent cannot go on.
RECURSIVE ValueAt(_, _)
ValueAt(v, segments) ==
  IF segments = <<>> THEN v
  ELSE IF v.t = "obj" /\ Head(segments) \in DOMAIN v.f
       THEN ValueAt(v.f[Head(segments)], Tail(segments))
       ELSE Undef

\* C10: safeGet never raises; it returns the fallback when a segment of the
\* path is absent or null or the value at the end is null or undefined (or
\* the path is no string), and otherwise the value at the end itself, the
\* falsy values 0, "" and false included.
C10_SafeGet ==
  ret.done
    => /\ ~ret.value.raised
       /\ ret.value.value =
            IF arg.path.t # "str" \/ Nullish(ValueAt(arg.obj, arg.segments))
            THEN arg.fallback
            ELSE ValueAt(arg.obj, arg.segments)

\* a.b.c on {a: {b: {c: 0}}} has given 0, not the fallback.
C10_Witness ==
  /\ ret.done
  /\ arg.obj = Obj([a |-> Obj([b |-> Obj([c |-> Num(0)])])])
  /\ arg.segments = <<"a", "b", "c">>
  /\ arg.fallback = Lit("fallback")
  /\ ret.value.value = Num(0)

====
